---- MODULE Spec2Model ----
(***************************************************************************)
(* Model of the one-shot OBCQ compression driver                           *)
(* SparseGPTModifierPyTorch (src/sparseml/modifiers/obcq/pytorch.py).      *)
(*                                                                         *)
(* The bottom, layer and head compressors are collaborators of the driver: *)
(* each invocation either raises or returns a state update, both drawn     *)
(* nondeterministically.  Python dicts are functions from a finite set of  *)
(* string keys to values; None is a distinguished value.                   *)
(*                                                                         *)
(* SpecDistill models PerLayerDistillationModifier                         *)
(* (src/sparseml/pytorch/sparsification/distillation/modifier_per_layer.py)*)
(* : its hook registration, the forward hooks and finalize.                *)
(***************************************************************************)
EXTENDS Integers, Sequences, FiniteSets, TLC

\* ---------------------------------------------------------------- bounds
MaxLayers == 2
MaxFinalize == 2

\* ------------------------------------------------------- value universes
None == [NoneType |-> "None"]

HeadCompressor == [Compressor |-> "head"]

NoInputs == "None"

StageKeys == {"outputs", "use_cache"}

ValuesOf(k) ==
    CASE k = "outputs" -> {"t0", "t1"}
      [] k = "use_cache" -> {"True", "False"}
      [] OTHER -> {}

AllValues == UNION {ValuesOf(k) : k \in StageKeys}

\* every dict a compressor may return as its extras / layer_kwargs
StageUpdates ==
    UNION {{u \in [S -> AllValues] : \A k \in S : u[k] \in ValuesOf(k)} :
           S \in SUBSET StageKeys}

Dataloaders == {"calib"}

\* device names are character sequences so that "cuda" in device is a
\* substring test
CudaStr == <<"c", "u", "d", "a">>
Cuda0 == <<"c", "u", "d", "a", ":", "0">>
Cpu == <<"c", "p", "u">>
Devices == {Cuda0, Cpu}

\* ------------------------------------------------------------ dict helpers
EmptyDict == [k \in {} |-> "None"]

\* dict.update overwrites on key collision
DictUpdate_setdefault(d, u) ==
    [k \in (DOMAIN d) \cup (DOMAIN u) |-> IF k \in DOMAIN d THEN d[k] ELSE u[k]]

DictUpdate_assign(d, u) == u

DictUpdate(d, u) ==
    [k \in (DOMAIN d) \cup (DOMAIN u) |-> IF k \in DOMAIN u THEN u[k] ELSE d[k]]

DictGet(d, k, default) == IF k \in DOMAIN d THEN d[k] ELSE default

StrContains(sub, s) ==
    \E i \in 1..(Len(s) - Len(sub) + 1) : SubSeq(s, i, i + Len(sub) - 1) = sub

\* ------------------------------------------------------------------ state
VARIABLES
    pc,                    \* position of the single thread of control
    compressible_layers_,  \* list of layers, in architectural order
    head_compressor_,      \* None or HeadCompressor
    device_,
    sequential_update,     \* modifier field, fixed at construction
    requested,             \* history: state.hardware.device and
                           \* torch.cuda.is_available() of the latest job
    finalization_kwargs_,  \* None or dict
    accum_kwargs,          \* apply_obcq local
    extras,                \* apply_obcq local
    inputs,                \* apply_obcq local
    layer_kwargs,          \* apply_obcq local: update of the last layer stage
    idx,                   \* apply_obcq loop index
    config_use_cache,      \* model.config.use_cache
    observers_enabled,     \* calibration observers attached to the model
    calls,                 \* history: stage invocations of the current run
    last_call,             \* history: arguments of the latest stage invocation
    bottom_extras,         \* history: what the bottom compressor returned
    merged_keys,           \* history: keys of every update merged this run
    finalize_count,        \* history: effective on_finalize calls of this job
    last_error             \* history: exception raised by the latest call

vars == <<pc, compressible_layers_, head_compressor_, device_,
          sequential_update, requested,
          finalization_kwargs_, accum_kwargs, extras, inputs, layer_kwargs,
          idx, config_use_cache, observers_enabled, calls, last_call,
          bottom_extras, merged_keys, finalize_count, last_error>>

\* state of PerLayerDistillationModifier and of the two hooked models
VARIABLES
    d_state,                  \* "uninit", "active" or "finalized"
    _student_names,
    _teacher_names,
    _student_handles,
    _teacher_handles,
    _cached_student_output,
    _cached_teacher_output,
    _student_output_shapes,
    _teacher_output_shapes,
    hooks,                    \* forward hooks attached to the two models
    base_has_handles,         \* whether a base class supplies the attributes
                              \* student_handles / teacher_handles
    d_teacher,                \* history: distillation_teacher of initialize
    d_error,                  \* history: exception of the latest initialize
                              \* or finalize
    d_finalize_calls,         \* history: finalize calls so far
    forward_log,              \* history: first and latest output per hook
    project_features,         \* modifier field, fixed at construction
    _projection,              \* None or the list of projection layers
    d_loss                    \* history: outcome of a compute_distillation_loss
                              \* call made in the present state

dvars == <<d_state, _student_names, _teacher_names, _student_handles,
           _teacher_handles, _cached_student_output, _cached_teacher_output,
           _student_output_shapes, _teacher_output_shapes, hooks,
           base_has_handles, d_teacher, d_error, d_finalize_calls,
           forward_log, project_features, _projection, d_loss>>

NoLoss == [called |-> FALSE, terms |-> <<>>, error |-> "none"]

\* the distillation modifier as constructed (lines 80-113), names not given
DistillIdle ==
    /\ d_state = "uninit"
    /\ _student_names = None
    /\ _teacher_names = None
    /\ _student_handles = None
    /\ _teacher_handles = None
    /\ _cached_student_output = None
    /\ _cached_teacher_output = None
    /\ _student_output_shapes = None
    /\ _teacher_output_shapes = None
    /\ hooks = {}
    /\ base_has_handles = FALSE
    /\ d_teacher = None
    /\ d_error = "none"
    /\ d_finalize_calls = 0
    /\ forward_log = EmptyDict
    /\ project_features = FALSE
    /\ _projection = None
    /\ d_loss = NoLoss

locals == <<accum_kwargs, extras, inputs, layer_kwargs, idx>>
modelState == <<config_use_cache, observers_enabled>>

NoCall == [kwargs |-> EmptyDict, inputs |-> NoInputs]

\* lines 125-133: the compression arguments handed to every LayerCompressor;
\* the numeric fields are opaque to the driver
layer_args_batched ==
    [sparsity |-> "sparsity", prunen |-> "prunen", prunem |-> "prunem",
     blocksize |-> "block_size", percdamp |-> "dampening_frac",
     sequential_update |-> FALSE, quantize |-> "quantize"]

layer_args ==
    [sparsity |-> "sparsity", prunen |-> "prunen", prunem |-> "prunem",
     blocksize |-> "block_size", percdamp |-> "dampening_frac",
     sequential_update |-> sequential_update, quantize |-> "quantize"]

\* the record of one stage invocation: dev=self.device_ at lines 107, 139, 146
Call_default_device(stage, layer, i, ok) ==
    [stage |-> stage, layer |-> layer, idx |-> i, dev |-> Cuda0, ok |-> ok,
     args |-> IF stage = "layer" THEN layer_args ELSE None]

Call(stage, layer, i, ok) ==
    [stage |-> stage, layer |-> layer, idx |-> i, dev |-> device_, ok |-> ok,
     args |-> IF stage = "layer" THEN layer_args ELSE None]

Init ==
    /\ pc = "idle"
    /\ compressible_layers_ = None
    /\ head_compressor_ = None
    /\ device_ = Cuda0
    /\ sequential_update \in BOOLEAN
    /\ requested = [device |-> Cuda0, cuda_available |-> TRUE]
    /\ finalization_kwargs_ = None
    /\ accum_kwargs = EmptyDict
    /\ extras = EmptyDict
    /\ inputs = NoInputs
    /\ layer_kwargs = EmptyDict
    /\ idx = 0
    /\ config_use_cache \in {"True", "False"}
    /\ observers_enabled = TRUE
    /\ calls = <<>>
    /\ last_call = NoCall
    /\ bottom_extras = EmptyDict
    /\ merged_keys = {}
    /\ finalize_count = 0
    /\ last_error = "none"
    /\ DistillIdle

\* ------------------------------------------------------------- operations
set_device_no_fallback(device, cuda_available) == device

set_device(device, cuda_available) ==
    IF StrContains(CudaStr, device) /\ ~cuda_available THEN Cpu ELSE device

compressible_layers(n) == [i \in 1..n |-> i - 1]

\* line 57: the payload is reset at the start of every on_initialize
reset_finalization_kwargs_keep(old) == IF old = None THEN EmptyDict ELSE old

reset_finalization_kwargs(old) == EmptyDict

\* line 98: every apply_obcq call builds a new accumulated state
initial_accum_kwargs_stale(old, dataloader) ==
    DictUpdate(old, [k \in {"dataloader"} |-> dataloader])

initial_accum_kwargs(old, dataloader) == [k \in {"dataloader"} |-> dataloader]

\* line 117: enumerate() hands out consecutive indices
enumerate_next_skip(i) == i + 2

enumerate_next_batched(i) ==
    IF sequential_update THEN i + 1 ELSE Len(compressible_layers_)

enumerate_next(i) == i + 1

\* line 118: the presence test made at the top of every iteration
outputs_missing(accum) == "outputs" \notin DOMAIN accum

\* line 123
layer_inputs(accum) == accum["outputs"]

\* line 146: the head compressor receives the accumulated state
head_call_kwargs_extras(accum, ex) == ex

head_call_kwargs(accum, ex) == accum

\* line 149: apply_obcq returns the local extras
apply_obcq_return_layer(ex, lk) == lk

apply_obcq_return(ex, lk) == ex

\* line 157: dict.get reads the payload and leaves it as it is
kwargs_after_pop(d) == [k \in DOMAIN d \ {"use_cache"} |-> d[k]]

kwargs_after_get(d) == d

NotRunning == pc \in {"idle", "returned", "raised"}

\* on_initialize up to the first stage invocation: reset the payload,
\* initialize_obcq, and the entry of apply_obcq
on_initialize(n, head, device, cuda_available, dataloader) ==
    /\ NotRunning
    /\ finalization_kwargs_' = reset_finalization_kwargs(finalization_kwargs_)
    /\ compressible_layers_' = compressible_layers(n)
    /\ head_compressor_' = head
    /\ device_' = set_device(device, cuda_available)
    /\ requested' = [device |-> device, cuda_available |-> cuda_available]
    /\ accum_kwargs' = initial_accum_kwargs(accum_kwargs, dataloader)
    /\ extras' = EmptyDict
    /\ inputs' = NoInputs
    /\ layer_kwargs' = EmptyDict
    /\ idx' = 0
    /\ calls' = <<>>
    /\ last_call' = NoCall
    /\ bottom_extras' = EmptyDict
    /\ merged_keys' = {}
    /\ finalize_count' = 0
    /\ last_error' = "none"
    /\ pc' = "bottom"
    /\ UNCHANGED <<modelState, sequential_update, dvars>>

\* Step 0: the bottom compressor is invoked with the device and the
\* accumulated state; it raises or returns its extras
apply_obcq_bottom ==
    /\ pc = "bottom"
    /\ last_call' = [kwargs |-> accum_kwargs, inputs |-> NoInputs]
    /\ \/ /\ calls' = Append(calls, Call("bottom", -1, -1, FALSE))
          /\ last_error' = "StageError"
          /\ pc' = "raised"
          /\ UNCHANGED <<locals, bottom_extras, merged_keys>>
       \/ \E u \in StageUpdates :
          /\ calls' = Append(calls, Call("bottom", -1, -1, TRUE))
          /\ last_error' = "none"
          /\ extras' = u
          /\ bottom_extras' = u
          /\ merged_keys' = DOMAIN accum_kwargs \cup DOMAIN u
          /\ accum_kwargs' = DictUpdate(accum_kwargs, u)
          /\ inputs' = NoInputs
          /\ pc' = "layers"
          /\ UNCHANGED <<layer_kwargs, idx>>
    /\ UNCHANGED <<compressible_layers_, head_compressor_, device_,
                   sequential_update, requested,
                   finalization_kwargs_, modelState, finalize_count, dvars>>

\* Step 1: one iteration of the loop over compressible_layers_
apply_obcq_layer ==
    /\ pc = "layers"
    /\ idx < Len(compressible_layers_)
    /\ IF outputs_missing(accum_kwargs)
       THEN /\ last_error' = "RuntimeError"
            /\ pc' = "raised"
            /\ UNCHANGED <<locals, calls, last_call, merged_keys>>
       ELSE /\ inputs' = layer_inputs(accum_kwargs)
            /\ last_call' = [kwargs |-> accum_kwargs, inputs |-> inputs']
            /\ \/ /\ calls' = Append(calls,
                        Call("layer", compressible_layers_[idx + 1], idx, FALSE))
                  /\ last_error' = "StageError"
                  /\ pc' = "raised"
                  /\ UNCHANGED <<accum_kwargs, extras, layer_kwargs, idx,
                                 merged_keys>>
               \/ \E u \in StageUpdates :
                  /\ calls' = Append(calls,
                        Call("layer", compressible_layers_[idx + 1], idx, TRUE))
                  /\ last_error' = "none"
                  /\ layer_kwargs' = u
                  /\ accum_kwargs' = DictUpdate(accum_kwargs, u)
                  /\ merged_keys' = merged_keys \cup DOMAIN u
                  /\ idx' = enumerate_next(idx)
                  /\ pc' = "layers"
                  /\ UNCHANGED extras
    /\ UNCHANGED <<compressible_layers_, head_compressor_, device_,
                   sequential_update, requested,
                   finalization_kwargs_, modelState, bottom_extras,
                   finalize_count, dvars>>

\* Step 2 and the return: the head compressor if one is configured, then
\* apply_obcq returns extras and on_initialize merges them into
\* finalization_kwargs_
apply_obcq_head ==
    /\ pc = "layers"
    /\ idx = Len(compressible_layers_)
    /\ IF head_compressor_ # None
       THEN /\ last_call' = [kwargs |-> head_call_kwargs(accum_kwargs, extras),
                             inputs |-> NoInputs]
            /\ \/ /\ calls' = Append(calls, Call("head", -1, -1, FALSE))
                  /\ last_error' = "StageError"
                  /\ pc' = "raised"
                  /\ UNCHANGED <<extras, finalization_kwargs_>>
               \/ \E u \in StageUpdates :
                  /\ calls' = Append(calls, Call("head", -1, -1, TRUE))
                  /\ last_error' = "none"
                  /\ extras' = u
                  /\ finalization_kwargs_' =
                        DictUpdate(finalization_kwargs_,
                                   apply_obcq_return(extras', layer_kwargs))
                  /\ pc' = "returned"
       ELSE /\ last_error' = "none"
            /\ finalization_kwargs_' =
                  DictUpdate(finalization_kwargs_,
                             apply_obcq_return(extras, layer_kwargs))
            /\ pc' = "returned"
            /\ UNCHANGED <<extras, calls, last_call>>
    /\ UNCHANGED <<compressible_layers_, head_compressor_, device_,
                   sequential_update, requested,
                   accum_kwargs, inputs, layer_kwargs, idx, modelState,
                   bottom_extras, merged_keys, finalize_count, dvars>>

\* on_finalize: reads the payload (AttributeError when it is still None),
\* disables the observers and writes the cache flag
on_finalize ==
    /\ NotRunning
    /\ finalize_count < MaxFinalize
    /\ IF finalization_kwargs_ = None
       THEN /\ last_error' = "AttributeError"
            /\ UNCHANGED <<modelState, finalize_count, finalization_kwargs_>>
       ELSE /\ last_error' = "none"
            /\ finalization_kwargs_' = kwargs_after_get(finalization_kwargs_)
            /\ observers_enabled' = FALSE
            /\ config_use_cache' = DictGet(finalization_kwargs_, "use_cache", "False")
            /\ finalize_count' = finalize_count + 1
    /\ UNCHANGED <<pc, compressible_layers_, head_compressor_, device_,
                   sequential_update, requested, locals, calls, last_call,
                   bottom_extras, merged_keys, dvars>>

Next ==
    \/ \E n \in 0..MaxLayers, head \in {None, HeadCompressor},
          device \in Devices, cuda_available \in BOOLEAN,
          dataloader \in Dataloaders :
          on_initialize(n, head, device, cuda_available, dataloader)
    \/ apply_obcq_bottom
    \/ apply_obcq_layer
    \/ apply_obcq_head
    \/ on_finalize

Spec == Init /\ [][Next]_vars

\* ------------------------------------- PerLayerDistillationModifier
\* lines 40-45
DistillationTypes == {"Conv1d", "Conv2d", "Conv3d", "Linear"}

\* a module is given by its named traversal: the layers in depth-first order
StudentModule ==
    << [name |-> "conv", type |-> "Conv2d"],
       [name |-> "act", type |-> "ReLU"],
       [name |-> "fc", type |-> "Linear"] >>

ShortModule ==
    << [name |-> "conv", type |-> "Conv2d"],
       [name |-> "act", type |-> "ReLU"] >>

\* the values initialize may receive as distillation_teacher
TeacherArgs ==
    {[kind |-> "disable", layers |-> <<>>],
     [kind |-> "self", layers |-> <<>>],
     [kind |-> "module", layers |-> StudentModule],
     [kind |-> "module", layers |-> ShortModule]}

\* the student_names / teacher_names a modifier may be constructed with
\* a Python list held by an attribute that may also be None
List(q) == [items |-> q]

NameConfigs ==
    << [student |-> None, teacher |-> None],
       [student |-> List(<<"fc">>), teacher |-> None],
       [student |-> List(<<"conv", "fc">>), teacher |-> List(<<"fc">>)],
       [student |-> List(<<"fc">>), teacher |-> List(<<"conv", "fc">>)] >>

\* the outputs a layer may produce
Tensors ==
    {[data |-> "x", shape |-> "s1"],
     [data |-> "y", shape |-> "s1"],
     [data |-> "y", shape |-> "s2"]}

Range(q) == {q[i] : i \in 1..Len(q)}

IsModule(teacher) == teacher.kind = "module"

LayerName(x) == x.name

NamesOf(q) == [i \in 1..Len(q) |-> LayerName(q[i])]

IsDistillationType(x) == x.type \in DistillationTypes

\* lines 363-371: the names of the layers of a distillation type, in
\* traversal order
find_layers_by_type(module) == NamesOf(SelectSeq(module, IsDistillationType))

\* lines 374-382: the names of the layers named in layer_names
find_layers_by_name(module, layer_names) ==
    LET Named(x) == x.name \in Range(layer_names)
    IN NamesOf(SelectSeq(module, Named))

\* lines 154-161: the teacher_names property
teacher_names ==
    IF _teacher_names # None THEN _teacher_names
    ELSE IF _student_names # None THEN _student_names
    ELSE None

\* the handle register_forward_hook returns for the n-th hook of a model
Handle(model, layer_name, n) == [id |-> n, model |-> model, layer |-> layer_name]

HandlesFor(model, names, base) ==
    [i \in 1..Len(names) |-> Handle(model, names[i], base + i)]

\* lines 354-360: what the hook does to the two dicts it closes over
forward_hook_outputs(outputs, layer_name, out) ==
    DictUpdate(outputs, [k \in {layer_name} |-> out])

forward_hook_shapes_overwrite(outputs_shape, layer_name, out) ==
    DictUpdate(outputs_shape, [k \in {layer_name} |-> out.shape])

forward_hook_shapes(outputs_shape, layer_name, out) ==
    IF layer_name \notin DOMAIN outputs_shape
    THEN DictUpdate(outputs_shape, [k \in {layer_name} |-> out.shape])
    ELSE outputs_shape

LogKey(model, layer_name) == <<model, layer_name>>

\* initialize (lines 183-248)
initialize(distillation_teacher) ==
    /\ d_state = "uninit"
    /\ d_teacher' = distillation_teacher
    /\ d_finalize_calls' = 0
    /\ IF IsModule(distillation_teacher)
       THEN LET by_type == _student_names = None
                cached_student_layers ==
                    IF by_type THEN find_layers_by_type(StudentModule)
                    ELSE find_layers_by_name(StudentModule,
                                             _student_names.items)
                cached_teacher_layers ==
                    IF by_type
                    THEN find_layers_by_type(distillation_teacher.layers)
                    ELSE find_layers_by_name(distillation_teacher.layers,
                                             teacher_names.items)
                student_hooks == HandlesFor("student", cached_student_layers, 0)
                teacher_hooks == HandlesFor("teacher", cached_teacher_layers,
                                            Len(cached_student_layers))
            IN /\ _cached_student_output' = EmptyDict
               /\ _cached_teacher_output' = EmptyDict
               /\ _student_output_shapes' = EmptyDict
               /\ _teacher_output_shapes' = EmptyDict
               /\ _student_names' =
                     (IF by_type THEN List(cached_student_layers)
                      ELSE _student_names)
               /\ _teacher_names' =
                     (IF by_type THEN List(cached_teacher_layers)
                      ELSE _teacher_names)
               /\ _student_handles' = List(student_hooks \o teacher_hooks)
               /\ _teacher_handles' = List(<<>>)
               /\ hooks' = hooks \cup Range(student_hooks) \cup Range(teacher_hooks)
               /\ forward_log' = EmptyDict
               /\ d_state' = "active"
               /\ d_error' = "none"
       ELSE /\ d_error' = "ValueError"
            /\ UNCHANGED <<d_state, _student_names, _teacher_names,
                           _student_handles, _teacher_handles,
                           _cached_student_output, _cached_teacher_output,
                           _student_output_shapes, _teacher_output_shapes,
                           hooks, forward_log>>
    /\ d_loss' = NoLoss
    /\ UNCHANGED <<base_has_handles, project_features, _projection, vars>>

\* one forward call of a hooked layer: forward_hook_fn (lines 355-358)
forward_hook_fn(model, layer_name, out) ==
    /\ \E h \in hooks : h.model = model /\ h.layer = layer_name
    /\ IF model = "student"
       THEN /\ _cached_student_output' =
                  forward_hook_outputs(_cached_student_output, layer_name, out)
            /\ _student_output_shapes' =
                  forward_hook_shapes(_student_output_shapes, layer_name, out)
            /\ UNCHANGED <<_cached_teacher_output, _teacher_output_shapes>>
       ELSE /\ _cached_teacher_output' =
                  forward_hook_outputs(_cached_teacher_output, layer_name, out)
            /\ _teacher_output_shapes' =
                  forward_hook_shapes(_teacher_output_shapes, layer_name, out)
            /\ UNCHANGED <<_cached_student_output, _student_output_shapes>>
    /\ forward_log' =
          LET key == LogKey(model, layer_name)
              first == IF key \in DOMAIN forward_log
                       THEN forward_log[key].first ELSE out
          IN [k \in DOMAIN forward_log \cup {key} |->
                 IF k = key THEN [first |-> first, last |-> out]
                 ELSE forward_log[k]]
    /\ d_loss' = NoLoss
    /\ UNCHANGED <<d_state, _student_names, _teacher_names, _student_handles,
                   _teacher_handles, hooks, base_has_handles, d_teacher,
                   d_error, d_finalize_calls, project_features, _projection,
                   vars>>

\* finalize (lines 250-272): self.student_handles and self.teacher_handles
\* are names this class does not define
finalize ==
    /\ d_finalize_calls < MaxFinalize
    /\ d_finalize_calls' = d_finalize_calls + 1
    /\ IF ~base_has_handles
       THEN /\ d_error' = "AttributeError"
            /\ UNCHANGED <<d_state, _student_handles, _teacher_handles,
                           _cached_student_output, _cached_teacher_output,
                           hooks>>
       ELSE IF _student_handles = None
       THEN /\ d_error' = "TypeError"
            /\ UNCHANGED <<d_state, _student_handles, _teacher_handles,
                           _cached_student_output, _cached_teacher_output,
                           hooks>>
       ELSE IF _teacher_handles = None
       THEN /\ d_error' = "TypeError"
            /\ hooks' = hooks \ Range(_student_handles.items)
            /\ UNCHANGED <<d_state, _student_handles, _teacher_handles,
                           _cached_student_output, _cached_teacher_output>>
       ELSE /\ d_error' = "none"
            /\ hooks' = (hooks \ Range(_student_handles.items))
                            \ Range(_teacher_handles.items)
            /\ _student_handles' = None
            /\ _teacher_handles' = None
            /\ _cached_student_output' = None
            /\ _cached_teacher_output' = None
            /\ d_state' = "finalized"
    /\ d_loss' = NoLoss
    /\ UNCHANGED <<_student_names, _teacher_names, _student_output_shapes,
                   _teacher_output_shapes, base_has_handles, d_teacher,
                   forward_log, project_features, _projection, vars>>

\* what self._teacher[index] raises (line 308): the teacher is a Module, and
\* subscripting it with an int either is not supported or yields a
\* sub-module, which is not a key of _teacher_output_shapes
TeacherSubscriptErrors == {"TypeError", "KeyError"}

\* _initialize_projection (lines 304-348): the exception it ends with; no
\* projection layer is ever appended, as the first iteration already raises
initialize_projection_error(subscript_error) ==
    IF _student_names = None THEN "TypeError"
    ELSE IF Len(_student_names.items) = 0 THEN "none"
    ELSE IF _student_output_shapes = None THEN "TypeError"
    ELSE IF _student_names.items[1] \notin DOMAIN _student_output_shapes
    THEN "KeyError"
    ELSE subscript_error

\* lines 294-300: one term of the loss, an opaque function of the two
\* outputs it is computed from (normalised or not)
loss_term(student_module_output, teacher_module_output) ==
    [student |-> student_module_output, teacher |-> teacher_module_output,
     projected |-> project_features]

\* lines 280-300: the loop, from the given index (0-based as in the code) on
RECURSIVE loss_loop(_, _, _)
loss_loop(index, terms, projection) ==
    LET student_names == _student_names.items
    IN IF index >= Len(student_names)
       THEN [terms |-> terms, error |-> "none"]
       ELSE IF _cached_student_output = None
       THEN [terms |-> terms, error |-> "TypeError"]
       ELSE IF student_names[index + 1] \notin DOMAIN _cached_student_output
       THEN [terms |-> terms, error |-> "KeyError"]
       ELSE IF index >= Len(teacher_names.items)
       THEN [terms |-> terms, error |-> "IndexError"]
       ELSE IF _cached_teacher_output = None
       THEN [terms |-> terms, error |-> "TypeError"]
       ELSE IF teacher_names.items[index + 1] \notin DOMAIN _cached_teacher_output
       THEN [terms |-> terms, error |-> "KeyError"]
       ELSE IF project_features /\ index >= Len(projection.items)
       THEN [terms |-> terms, error |-> "IndexError"]
       ELSE loss_loop(index + 1,
                      Append(terms,
                             loss_term(
                                 _cached_student_output[student_names[index + 1]],
                                 _cached_teacher_output[teacher_names.items[index + 1]])),
                      projection)

\* compute_distillation_loss (lines 274-302)
compute_distillation_loss(subscript_error) ==
    LET init_needed == project_features /\ _projection = None
        init_error == IF init_needed
                      THEN initialize_projection_error(subscript_error)
                      ELSE "none"
        projection == IF init_needed THEN List(<<>>) ELSE _projection
        result == IF init_error # "none"
                  THEN [terms |-> <<>>, error |-> init_error]
                  ELSE IF _student_names = None
                  THEN [terms |-> <<>>, error |-> "TypeError"]
                  ELSE loss_loop(0, <<>>, projection)
    IN /\ _projection' = projection
       /\ d_loss' = [called |-> TRUE, terms |-> result.terms,
                     error |-> result.error]
       /\ UNCHANGED <<d_state, _student_names, _teacher_names,
                      _student_handles, _teacher_handles,
                      _cached_student_output, _cached_teacher_output,
                      _student_output_shapes, _teacher_output_shapes, hooks,
                      base_has_handles, d_teacher, d_error, d_finalize_calls,
                      forward_log, project_features, vars>>

\* lines 350-351
compute_total_loss(gain, loss, distillation_loss) ==
    loss + gain * distillation_loss

\* the OBCQ modifier left as constructed
ObcqIdle ==
    /\ pc = "idle"
    /\ compressible_layers_ = None
    /\ head_compressor_ = None
    /\ device_ = Cuda0
    /\ sequential_update = TRUE
    /\ requested = [device |-> Cuda0, cuda_available |-> TRUE]
    /\ finalization_kwargs_ = None
    /\ accum_kwargs = EmptyDict
    /\ extras = EmptyDict
    /\ inputs = NoInputs
    /\ layer_kwargs = EmptyDict
    /\ idx = 0
    /\ config_use_cache = "False"
    /\ observers_enabled = TRUE
    /\ calls = <<>>
    /\ last_call = NoCall
    /\ bottom_extras = EmptyDict
    /\ merged_keys = {}
    /\ finalize_count = 0
    /\ last_error = "none"

InitDistill ==
    /\ ObcqIdle
    /\ d_state = "uninit"
    /\ \E i \in DOMAIN NameConfigs :
          /\ _student_names = NameConfigs[i].student
          /\ _teacher_names = NameConfigs[i].teacher
    /\ _student_handles = None
    /\ _teacher_handles = None
    /\ _cached_student_output = None
    /\ _cached_teacher_output = None
    /\ _student_output_shapes = None
    /\ _teacher_output_shapes = None
    /\ hooks = {}
    /\ base_has_handles \in BOOLEAN
    /\ d_teacher = None
    /\ d_error = "none"
    /\ d_finalize_calls = 0
    /\ forward_log = EmptyDict
    /\ project_features \in BOOLEAN
    /\ _projection = None
    /\ d_loss = NoLoss

NextDistill ==
    \/ \E distillation_teacher \in TeacherArgs : initialize(distillation_teacher)
    \/ \E model \in {"student", "teacher"}, layer_name \in {"conv", "fc"},
          out \in Tensors : forward_hook_fn(model, layer_name, out)
    \/ finalize
    \/ \E subscript_error \in TeacherSubscriptErrors :
          compute_distillation_loss(subscript_error)

SpecDistill == InitDistill /\ [][NextDistill]_<<vars, dvars>>

\* ----------------------------------------------------------- properties
Last(q) == q[Len(q)]

NumLayers == Len(compressible_layers_)

HeadConfigured == head_compressor_ # None

\* the merge the pipeline is specified to perform, stated independently of
\* the driver's DictUpdate
LastWriterWins(d, u) ==
    [k \in (DOMAIN d) \cup (DOMAIN u) |-> IF k \in DOMAIN u THEN u[k] ELSE d[k]]

\* the stage invocations of a complete run over NumLayers layers
ExpectedStages ==
    <<"bottom">> \o [i \in 1..NumLayers |-> "layer"]
                 \o (IF HeadConfigured THEN <<"head">> ELSE <<>>)

ExpectedIdx(i) == IF i \in 2..(NumLayers + 1) THEN i - 2 ELSE -1

StageCalled(c) == Len(calls') = Len(calls) + 1 /\ Last(calls') = c

NewCall == Len(calls') = Len(calls) + 1

\* the update returned by the stage that ran before layer k
PrevUpdate(k) == IF k = 0 THEN bottom_extras ELSE layer_kwargs

\* C1: the invocations of a run are always a prefix of bottom, layer 0,
\* layer 1, ..., layer N-1, head (if configured), each layer being the one at
\* its index in compressible_layers_, every invocation but the latest has
\* returned normally, and a run that returns has made all of them.
C1_StageOrder ==
    pc # "idle" =>
        /\ Len(calls) <= Len(ExpectedStages)
        /\ \A i \in 1..Len(calls) :
              /\ calls[i].stage = ExpectedStages[i]
              /\ calls[i].idx = ExpectedIdx(i)
              /\ calls[i].stage = "layer" =>
                    calls[i].layer = compressible_layers_[calls[i].idx + 1]
              /\ i < Len(calls) => calls[i].ok
        /\ pc = "returned" =>
              /\ Len(calls) = Len(ExpectedStages)
              /\ \A i \in 1..Len(calls) : calls[i].ok

C1_Witness ==
    /\ pc = "returned"
    /\ NumLayers >= 2
    /\ HeadConfigured
    /\ Len(calls) = NumLayers + 2

\* C2: whenever the LayerCompressor of layer k is invoked, the stage before
\* it was the bottom compressor (k = 0) or layer k-1 (k >= 1), and the inputs
\* it is constructed with are the value under 'outputs' of the accumulated
\* state obtained by merging that stage's returned update into the state that
\* stage was called with.
C2_InputsThreaded ==
    [][(NewCall /\ Last(calls').stage = "layer") =>
          LET k == Last(calls').idx
              merged == LastWriterWins(last_call.kwargs, PrevUpdate(k))
          IN /\ Last(calls).ok
             /\ Last(calls).stage = (IF k = 0 THEN "bottom" ELSE "layer")
             /\ k >= 1 => Last(calls).idx = k - 1
             /\ "outputs" \in DOMAIN merged
             /\ last_call'.inputs = merged["outputs"]
             /\ last_call'.kwargs = merged]_vars

C2_Witness ==
    /\ pc = "layers"
    /\ idx >= 2
    /\ Last(calls).stage = "layer"
    /\ "outputs" \in DOMAIN bottom_extras
    /\ last_call.inputs # bottom_extras["outputs"]

\* C3: once the bottom compressor has returned extras without the key
\* 'outputs', the run never returns and no layer or head compressor is
\* invoked, whatever the number of layers.
C3_MissingOutputsFails ==
    (Len(calls) >= 1 /\ calls[1].ok /\ "outputs" \notin DOMAIN bottom_extras) =>
        /\ pc # "returned"
        /\ Len(calls) = 1

\* C4 as stated: without a head compressor and with at least one layer, the
\* payload a run returns is the update returned by the last layer stage.
C4_PayloadIsLastLayer ==
    (pc = "returned" /\ ~HeadConfigured /\ NumLayers >= 1) =>
        finalization_kwargs_ = layer_kwargs

\* C4 amended: without a head compressor the payload a run returns, and so
\* the content of finalization_kwargs_, is the extras returned by the bottom
\* compressor, whatever the layer stages returned.
C4_PayloadIsBottomExtras ==
    (pc = "returned" /\ ~HeadConfigured) =>
        /\ extras = bottom_extras
        /\ finalization_kwargs_ = bottom_extras

C4_Witness ==
    /\ pc = "returned"
    /\ ~HeadConfigured
    /\ NumLayers >= 1
    /\ "use_cache" \in DOMAIN bottom_extras
    /\ layer_kwargs # bottom_extras
    /\ finalization_kwargs_ = bottom_extras

\* C5: in a run that returns with a head compressor configured, the head
\* compressor was invoked exactly once, as the last stage, with the resolved
\* device and with the final accumulated state, which holds every key merged
\* by the bottom and layer stages, and the extras it returned are the payload.
C5_HeadStage ==
    (pc = "returned" /\ HeadConfigured) =>
        /\ Cardinality({i \in 1..Len(calls) : calls[i].stage = "head"}) = 1
        /\ Last(calls).stage = "head"
        /\ Last(calls).ok
        /\ Last(calls).dev = device_
        /\ last_call.kwargs = accum_kwargs
        /\ merged_keys \subseteq DOMAIN last_call.kwargs
        /\ "dataloader" \in DOMAIN last_call.kwargs
        /\ finalization_kwargs_ = extras

C5_Witness ==
    /\ pc = "returned"
    /\ HeadConfigured
    /\ NumLayers >= 1
    /\ merged_keys = {"dataloader", "outputs", "use_cache"}
    /\ extras # bottom_extras
    /\ extras # layer_kwargs

\* C6: after an on_finalize that follows a successful on_initialize,
\* model.config.use_cache is the 'use_cache' value the bottom compressor
\* returned, or False when it returned none.
C6_CacheFlagRestored ==
    (pc = "returned" /\ finalize_count >= 1) =>
        config_use_cache = DictGet(bottom_extras, "use_cache", "False")

\* C7: on_finalize takes effect only when the run of the job has returned,
\* and only if it has not taken effect for this job before.
C7_FinalizeOnlyAfterRun ==
    [][finalize_count' > finalize_count =>
          (pc = "returned" /\ finalize_count = 0)]_vars

\* C8: a stage invocation that raised is the last invocation of its run (no
\* later stage, no retry), the run is over with the error propagated, and
\* finalization_kwargs_ is the empty dict.
C8_StageErrorAborts ==
    \A i \in 1..Len(calls) :
        ~calls[i].ok =>
            /\ i = Len(calls)
            /\ pc = "raised"
            /\ finalization_kwargs_ = EmptyDict

C8_Witness ==
    /\ pc = "raised"
    /\ Len(calls) >= 3
    /\ ~Last(calls).ok
    /\ Last(calls).stage = "layer"

\* C9: no layer or head stage is invoked with an 'outputs' value in its
\* accumulated state when the stage before it returned an update without the
\* key 'outputs'.
C9_OutputsRefreshed ==
    [][(NewCall /\ Last(calls').stage # "bottom") =>
          LET prev == IF Last(calls).stage = "bottom"
                      THEN bottom_extras ELSE layer_kwargs
          IN ~("outputs" \notin DOMAIN prev
               /\ "outputs" \in DOMAIN last_call'.kwargs)]_vars

\* C10: a run whose layer list is empty has failed without invoking any
\* compressor.
C10_NoLayersFails ==
    (pc # "idle" /\ NumLayers = 0) =>
        /\ pc = "raised"
        /\ calls = <<>>

\* C11: the device of a job is 'cpu' when the requested device names a cuda
\* accelerator and none is available, and the requested device in every
\* other case; resolving it never fails the run, which can only fail once the
\* bottom compressor has been invoked.
C11_DeviceResolution ==
    pc # "idle" =>
        /\ device_ = (IF requested.device = Cuda0 /\ ~requested.cuda_available
                      THEN Cpu ELSE requested.device)
        /\ pc = "raised" => calls # <<>>

C11_Witness ==
    /\ pc = "returned"
    /\ requested.device = Cuda0
    /\ ~requested.cuda_available
    /\ device_ = Cpu
    /\ NumLayers >= 1

\* C12: on_finalize never changes finalization_kwargs_, and a call that
\* follows another call of the same job leaves model.config.use_cache and the
\* observers as the first call left them.
C12_FinalizeIdempotent ==
    [][finalize_count' = finalize_count + 1 =>
          /\ finalization_kwargs_' = finalization_kwargs_
          /\ finalize_count >= 1 =>
                /\ config_use_cache' = config_use_cache
                /\ observers_enabled' = observers_enabled]_vars

C12_Witness ==
    /\ finalize_count = 2
    /\ pc = "returned"
    /\ config_use_cache = "True"
    /\ "outputs" \in DOMAIN finalization_kwargs_

\* C17: a bottom or layer stage that returns leaves the accumulated state
\* equal to the old state overwritten by the stage's update: emitted keys take
\* the emitted value, all other keys (the 'dataloader' entry among them) keep
\* theirs; and within a run no step removes a key.
C17_MergeLastWriterWins ==
    [][/\ (NewCall /\ Last(calls').ok /\ Last(calls').stage # "head") =>
             LET u == IF Last(calls').stage = "bottom"
                      THEN bottom_extras' ELSE layer_kwargs'
             IN /\ DOMAIN accum_kwargs' = DOMAIN accum_kwargs \cup DOMAIN u
                /\ \A k \in DOMAIN u : accum_kwargs'[k] = u[k]
                /\ \A k \in DOMAIN accum_kwargs \ DOMAIN u :
                      accum_kwargs'[k] = accum_kwargs[k]
                /\ "dataloader" \in DOMAIN accum_kwargs'
       /\ pc' # "bottom" => DOMAIN accum_kwargs \subseteq DOMAIN accum_kwargs'
      ]_vars

C17_Witness ==
    /\ pc = "layers"
    /\ idx >= 2
    /\ "use_cache" \in DOMAIN bottom_extras
    /\ "outputs" \in DOMAIN bottom_extras
    /\ DOMAIN layer_kwargs = {"outputs"}
    /\ accum_kwargs["outputs"] # bottom_extras["outputs"]
    /\ accum_kwargs["use_cache"] = bottom_extras["use_cache"]

\* C18: device_ changes only in the step that starts a job, and every stage
\* invocation of a run carries the device_ of that run.
C18_DeviceReadOnly ==
    [][/\ device_' # device_ => (NotRunning /\ pc' = "bottom")
       /\ NewCall =>
             /\ Last(calls').dev = device_
             /\ \A i \in 1..Len(calls) : calls[i].dev = Last(calls').dev]_vars

C18_Witness ==
    /\ pc = "returned"
    /\ HeadConfigured
    /\ NumLayers >= 2
    /\ device_ = Cpu
    /\ requested.device = Cuda0

\* C19: for either value of sequential_update, the stage invocations of a run
\* are the prefix of bottom, layers 0..N-1, head fixed by the number of layers
\* and the head configuration alone, every layer is constructed with
\* 'outputs' of the state it is called with, and every layer receives the
\* same arguments, sequential_update among them as configured.
C19_SequentialUpdatePassThrough ==
    pc # "idle" =>
        /\ Len(calls) <= Len(ExpectedStages)
        /\ \A i \in 1..Len(calls) :
              /\ calls[i].stage = ExpectedStages[i]
              /\ calls[i].idx = ExpectedIdx(i)
              /\ calls[i].stage = "layer" =>
                    /\ calls[i].args.sequential_update = sequential_update
                    /\ calls[i].args = calls[2].args
                    /\ DOMAIN calls[i].args =
                          {"sparsity", "prunen", "prunem", "blocksize",
                           "percdamp", "sequential_update", "quantize"}
        /\ pc = "returned" => Len(calls) = Len(ExpectedStages)
        /\ (calls # <<>> /\ Last(calls).stage = "layer") =>
              last_call.inputs = last_call.kwargs["outputs"]

C19_Witness ==
    /\ pc = "returned"
    /\ ~sequential_update
    /\ NumLayers >= 2
    /\ HeadConfigured

\* C20: a run starts with an accumulated state holding the 'dataloader' entry
\* only, finalization_kwargs_ is empty for as long as the run lasts, and after
\* a run that returned it is exactly the payload of that run.
C20_NoLeakBetweenRuns ==
    /\ pc = "bottom" => DOMAIN accum_kwargs = {"dataloader"}
    /\ pc \in {"bottom", "layers"} => finalization_kwargs_ = EmptyDict
    /\ pc \in {"bottom", "layers", "returned"} =>
          DOMAIN accum_kwargs = merged_keys \cup {"dataloader"}
    /\ pc = "returned" =>
          /\ DOMAIN finalization_kwargs_ = DOMAIN extras
          /\ finalization_kwargs_ = extras

C20_Witness ==
    /\ pc = "returned"
    /\ ~observers_enabled
    /\ finalize_count = 0
    /\ config_use_cache = "True"
    /\ "use_cache" \notin DOMAIN finalization_kwargs_
    /\ "use_cache" \notin DOMAIN accum_kwargs

\* ------------------------------ properties of the distillation modifier
ModuleNames(module) == {module[i].name : i \in 1..Len(module)}

\* the layers initialize resolved on each model
ResolvedLayers(model) ==
    IF model = "student"
    THEN Range(_student_names.items) \cap ModuleNames(StudentModule)
    ELSE Range(teacher_names.items) \cap ModuleNames(d_teacher.layers)

HooksOn(model, layer_name) ==
    {h \in hooks : h.model = model /\ h.layer = layer_name}

CachedOutput(model) ==
    IF model = "student" THEN _cached_student_output ELSE _cached_teacher_output

CachedShapes(model) ==
    IF model = "student" THEN _student_output_shapes ELSE _teacher_output_shapes

\* C13: once the modifier was initialized with a teacher module, a second
\* or later finalize has completed without error and the modifier is
\* Finalized with no hook attached.
C13_FinalizeRepeatable ==
    (d_state # "uninit" /\ d_finalize_calls >= 2) =>
        /\ d_error = "none"
        /\ d_state = "finalized"
        /\ hooks = {}

\* C14: after initialize with a teacher module every resolved layer of the
\* student and of the teacher carries exactly one hook and no other layer
\* carries any; once finalize has been called no hook is attached to either
\* model and the cached outputs are released.
C14_HooksLifecycle ==
    /\ (d_state = "active" /\ d_finalize_calls = 0) =>
          \A model \in {"student", "teacher"}, layer_name \in {"conv", "act", "fc"} :
              Cardinality(HooksOn(model, layer_name)) =
                  (IF layer_name \in ResolvedLayers(model) THEN 1 ELSE 0)
    /\ (d_state # "uninit" /\ d_finalize_calls >= 1) =>
          /\ d_state = "finalized"
          /\ hooks = {}
          /\ _cached_student_output = None
          /\ _cached_teacher_output = None

\* C15: after initialize was called with distillation_teacher = 'disable',
\* the call has not raised and no hook is attached.
C15_DisableInert ==
    (d_teacher # None /\ d_teacher.kind = "disable" /\ d_finalize_calls = 0) =>
        /\ d_error = "none"
        /\ hooks = {}

\* C16 as stated: for every hooked layer that has run forward, the cached
\* output and the cached shape are those of its latest forward call.
C16_LatestOutputAndShape ==
    d_state = "active" =>
        \A key \in DOMAIN forward_log :
            /\ CachedOutput(key[1])[key[2]] = forward_log[key].last
            /\ CachedShapes(key[1])[key[2]] = forward_log[key].last.shape

\* C16 amended: for every hooked layer that has run forward, the cached
\* output is that of its latest forward call and the cached shape is that of
\* its first forward call since initialize.
C16_LatestOutputFirstShape ==
    d_state = "active" =>
        /\ DOMAIN _cached_student_output \cup DOMAIN _cached_teacher_output
              = {key[2] : key \in DOMAIN forward_log}
        /\ \A key \in DOMAIN forward_log :
              /\ key[2] \in DOMAIN CachedOutput(key[1])
              /\ key[2] \in DOMAIN CachedShapes(key[1])
              /\ CachedOutput(key[1])[key[2]] = forward_log[key].last
              /\ CachedShapes(key[1])[key[2]] = forward_log[key].first.shape

C16_Witness ==
    /\ d_state = "active"
    /\ \E key \in DOMAIN forward_log :
          /\ forward_log[key].first.shape # forward_log[key].last.shape
          /\ CachedOutput(key[1])[key[2]] = forward_log[key].last
          /\ CachedShapes(key[1])[key[2]] = forward_log[key].first.shape

\* a forward pass has cached the output of every student layer named and of
\* every teacher layer at a position the student list has
LossInputsCached ==
    /\ d_state = "active"
    /\ \A i \in 1..Len(_student_names.items) :
          /\ _student_names.items[i] \in DOMAIN _cached_student_output
          /\ i <= Len(teacher_names.items) =>
                teacher_names.items[i] \in DOMAIN _cached_teacher_output

\* the outcome of a call that pairs the two name lists by position
PositionalPairing ==
    LET S == _student_names.items
        T == teacher_names.items
    IN /\ Len(T) < Len(S) => d_loss.error = "IndexError"
       /\ Len(T) >= Len(S) =>
             /\ d_loss.error = "none"
             /\ Len(d_loss.terms) = Len(S)
             /\ \A i \in 1..Len(S) :
                   /\ d_loss.terms[i].student = _cached_student_output[S[i]]
                   /\ d_loss.terms[i].teacher = _cached_teacher_output[T[i]]

\* C21: a compute_distillation_loss call made once the outputs are cached
\* fails on an out-of-range index when the teacher name list is shorter than
\* the student name list, and otherwise returns the sum of exactly one term
\* per position i of the student list, computed from the cached outputs of
\* student_names[i] and teacher_names[i], teacher names beyond the length of
\* the student list playing no part.
C21_PositionalPairing ==
    (d_loss.called /\ LossInputsCached) => PositionalPairing

\* the same pairing with feature projection switched off
PairingWithoutProjection ==
    (d_loss.called /\ LossInputsCached /\ ~project_features) =>
        PositionalPairing

\* reachable cases of PairingWithoutProjection: a shorter and a longer
\* teacher list
ShorterTeacherReached ==
    ~(/\ d_loss.called /\ LossInputsCached /\ ~project_features
      /\ Len(teacher_names.items) < Len(_student_names.items)
      /\ Len(d_loss.terms) = Len(teacher_names.items))

LongerTeacherReached ==
    ~(/\ d_loss.called /\ LossInputsCached /\ ~project_features
      /\ Len(teacher_names.items) > Len(_student_names.items)
      /\ Last(teacher_names.items) \in DOMAIN _cached_teacher_output
      /\ d_loss.error = "none")

====
